---- MODULE Spec2Model ----
(***************************************************************************)
(* RecipesManager of openag_ui (src/src/environmental-data-points.js,      *)
(* lines 208-565): the reducer `update`, the effects it issues, and the    *)
(* effect runner that feeds database results back into it; and the         *)
(* Dashboard of the same file (lines 1-206), with its poll cycle.          *)
(*                                                                         *)
(* A model is a record; an action is a record with a `type` field; an      *)
(* effect batch is the sequence of effect descriptors in issuance order.   *)
(* The sub-model recipesForm is opaque to every handler below and is left  *)
(* out of the record.                                                      *)
(***************************************************************************)
EXTENDS Integers, Sequences, FiniteSets, TLC

VARIABLES model, fx, last, inflight, store,
          dashboard, dashFx, dashCalls, dashLast, dashInflight

\* The RecipesManager and its runner; the Dashboard and its runner.
recipesVars == <<model, fx, last, inflight, store>>
dashVars == <<dashboard, dashFx, dashCalls, dashLast, dashInflight>>

vars == <<model, fx, last, inflight, store,
          dashboard, dashFx, dashCalls, dashLast, dashInflight>>

\* ------------------------------------------------------------------ bounds
\* Number of distinct recipe documents in play: document n has body n and
\* _id IDTable[(n + 1) \div 2], so ID "a" has two bodies and ID "b" one.
MaxRecipes == 3
\* Largest number of effects in flight at once.
MaxInFlight == 2
\* Largest number of rows in a fetched record set.
MaxRows == 3

\* ------------------------------------------------------------------ values
\* JavaScript null, for the string-valued fields active, activePanel, origin.
NULL == "null"

IDTable == <<"a", "b", "c", "d">>
\* PouchDB's allDocs returns documents in ascending _id order.
Rank(id) == CHOOSE i \in 1..Len(IDTable) : IDTable[i] = id

Recipes == {[_id |-> IDTable[(n + 1) \div 2], value |-> n] : n \in 1..MaxRecipes}
IDs == {r._id : r \in Recipes}

\* Origins a parent may configure: the empty string (falsy) and a URL.
Origins == {"", "o1"}

Truthy(v) == v # NULL /\ v # ""

\* The local PouchDB database: at most one document per _id.
Stores ==
  UNION {{db \in [S -> Recipes] : \A id \in S : db[id]._id = id} : S \in SUBSET IDs}

RECURSIVE SortedIDs(_)
SortedIDs(S) ==
  IF S = {} THEN <<>>
  ELSE LET m == CHOOSE i \in S : \A j \in S : Rank(i) <= Rank(j)
       IN <<m>> \o SortedIDs(S \ {m})

\* Database.restore(DB): every document of the store, in _id order.
allDocs(db) ==
  LET ids == SortedIDs(DOMAIN db)
  IN [i \in 1..Len(ids) |-> db[ids[i]]]

\* Database.put(DB, doc): the document replaces the one stored under its _id.
dbPut(db, doc) ==
  [k \in DOMAIN db \cup {doc._id} |-> IF k = doc._id THEN doc ELSE db[k]]

Ok(v) == [isOk |-> TRUE, value |-> v]
Error(e) == [isOk |-> FALSE, error |-> e]

Range(s) == {s[i] : i \in 1..Len(s)}

\* ----------------------------------------------------------------- effects
\* Each database effect carries the action constructor its result is mapped
\* through (`.map(RestoredRecipes)`, `.map(Putted)`, `.map(Synced)`).
none == <<>>
RestoreFx == [kind |-> "restore", tag |-> "RestoredRecipes"]
PutFx(recipe) == [kind |-> "put", doc |-> recipe, tag |-> "Putted"]
SyncFx(origin) == [kind |-> "sync", origin |-> origin, tag |-> "Synced"]
ReceiveFx(action) == [kind |-> "receive", action |-> action]

\* The action a database effect's result is dispatched as.
Tagged(effect, result) == [type |-> effect.tag, result |-> result]

\* ----------------------------------------------------------------- actions
Configure(origin) == [type |-> "Configure", origin |-> origin]
RestoreRecipes == [type |-> "RestoreRecipes"]
RestoredRecipes(result) == [type |-> "RestoredRecipes", result |-> result]
Put(recipe) == [type |-> "Put", value |-> recipe]
Putted(result) == [type |-> "Putted", result |-> result]
Sync == [type |-> "Sync"]
Synced(result) == [type |-> "Synced", result |-> result]
StartByID(id) == [type |-> "StartByID", id |-> id]
RequestStart(value) == [type |-> "RequestStart", value |-> value]
ActivatePanel(id) == [type |-> "ActivatePanel", id |-> id]
NoOp == [type |-> "NoOp"]
TagIndexed(source) == [type |-> "Indexed", source |-> source]
TagBanner(source) == [type |-> "Banner", source |-> source]
TagModal(source) == [type |-> "Modal", source |-> source]
IndexedActivate(id) == [type |-> "Activate", id |-> id]
Activate(id) == TagIndexed(IndexedActivate(id))
BannerAlertRefreshable(message) == [type |-> "AlertRefreshable", message |-> message]
BannerAlertDismissable(message) == [type |-> "AlertDismissable", message |-> message]
AlertRefreshable(message) == TagBanner(BannerAlertRefreshable(message))
AlertDismissable(message) == TagBanner(BannerAlertDismissable(message))
Open == TagModal([type |-> "Open"])
Close == TagModal([type |-> "Close"])
RecipeAction(id, source) == [type |-> "Recipe", id |-> id, source |-> source]

\* --------------------------------------------------------------- helpers
localize(text) == [localized |-> text]

templateRecipesDatabase(origin) ==
  [template |-> "recipes.origin", origin_url |-> origin]

\* Indexed.getter('_id'): the key it reads, and the read.
PouchIDKey == "_id"
getPouchID(doc) == doc[PouchIDKey]

\* Indexed.indexWith: a fresh id -> entity mapping keyed by the getter's field;
\* a later entity with the same key replaces an earlier one.
indexWith(entities, key) ==
  [id \in {entities[i][key] : i \in 1..Len(entities)} |->
     LET i == CHOOSE k \in 1..Len(entities) :
                /\ entities[k][key] = id
                /\ \A j \in (k + 1)..Len(entities) : entities[j][key] # id
     IN entities[i]]

\* Indexed.add: append id to order if new, (over)write entries[id].
IndexedAdd(m, id, entry) ==
  [m EXCEPT
     !.order = IF id \in Range(m.order) THEN m.order ELSE Append(m.order, id),
     !.entries = [k \in DOMAIN m.entries \cup {id} |->
                    IF k = id THEN entry ELSE m.entries[k]]]

\* Indexed.update: Activate(id) overwrites the single active ID.
IndexedUpdate(m, action) ==
  IF action.type = "Activate"
  THEN <<[m EXCEPT !.active = action.id], none>>
  ELSE <<m, none>>

\* Modal.update: Open / Close set isOpen.
ModalUpdate(m, action) ==
  IF action.type = "Open" THEN <<[m EXCEPT !.isOpen = TRUE], none>>
  ELSE IF action.type = "Close" THEN <<[m EXCEPT !.isOpen = FALSE], none>>
  ELSE <<m, none>>

\* Banner.update: an alert replaces what the banner shows.
BannerUpdate(banner, action) ==
  IF action.type = "AlertRefreshable"
  THEN <<[mode |-> "refreshable", message |-> action.message], none>>
  ELSE IF action.type = "AlertDismissable"
  THEN <<[mode |-> "dismissable", message |-> action.message], none>>
  ELSE <<banner, none>>

BannerInit == [mode |-> "hidden", message |-> localize("")]

\* Recipe.update: no Recipe action reaches it through this module's tagging
\* (Activate is rerouted to StartByID), so the entity is returned as it was.
RecipeUpdate(entity, action) == <<entity, none>>

\* Unknown.update: log, change nothing.
UnknownUpdate(m, action) == <<m, none>>

\* entries[id] in JavaScript: undefined for a missing key; merge({}, undefined)
\* is the empty object.
EmptyObject == [k \in {} |-> 0]
CopyOf(entries, id) == IF id \in DOMAIN entries THEN entries[id] ELSE EmptyObject

\* ----------------------------------------------------------------- update
RECURSIVE update(_, _)

\* prelude.batch: fold the actions through update, collecting the effects in
\* order.
RECURSIVE batch(_, _)
batch(m, actions) ==
  IF actions = <<>> THEN <<m, none>>
  ELSE LET first == update(m, Head(actions))
           rest == batch(first[1], Tail(actions))
       IN <<rest[1], first[2] \o rest[2]>>

updateIndexed(m, action) == IndexedUpdate(m, action)

updateModal(m, action) == ModalUpdate(m, action)

updateBanner(m, action) ==
  LET r == BannerUpdate(m.banner, action)
  IN <<[m EXCEPT !.banner = r[1]], r[2]>>

updateByID(m, id, action) ==
  IF id \in DOMAIN m.entries
  THEN LET r == RecipeUpdate(m.entries[id], action)
       IN <<[m EXCEPT !.entries = [m.entries EXCEPT ![id] = r[1]]], r[2]>>
  ELSE <<m, none>>

\* sync without its origin guard.
syncUnguarded(m) == <<m, <<SyncFx(templateRecipesDatabase(m.origin))>>>>

sync(m) ==
  IF Truthy(m.origin)
  THEN <<m, <<SyncFx(templateRecipesDatabase(m.origin))>>>>
  ELSE <<m, none>>

\* syncedOk that does not re-run the restore.
syncedOkIdle(m) == <<m, none>>

syncedOk(m) == update(m, RestoreRecipes)

\* syncedError that retries the sync instead of alerting.
syncedErrorRetrying(m) == update(m, Sync)

syncedError(m) ==
  update(m, AlertDismissable(localize("Couldn't sync with the cloud. Using local database.")))

\* restoredOk as an incremental merge into the existing collection.
restoredOkMerging(m, recipes) ==
  <<[m EXCEPT
       !.order = m.order \o SelectSeq([i \in 1..Len(recipes) |-> getPouchID(recipes[i])],
                                      LAMBDA id : id \notin Range(m.order)),
       !.entries = [k \in DOMAIN m.entries \cup DOMAIN indexWith(recipes, PouchIDKey) |->
                      IF k \in DOMAIN indexWith(recipes, PouchIDKey)
                      THEN indexWith(recipes, PouchIDKey)[k]
                      ELSE m.entries[k]]],
    none>>

\* restoredOk that rebuilds order but leaves entries as they were.
restoredOkKeepingEntries(m, recipes) ==
  <<[m EXCEPT !.order = [i \in 1..Len(recipes) |-> getPouchID(recipes[i])]], none>>

\* restoredOk that keeps the collection when the result holds fewer recipes.
restoredOkKeepingLonger(m, recipes) ==
  IF Len(recipes) < Len(m.order)
  THEN <<m, none>>
  ELSE <<[m EXCEPT
            !.order = [i \in 1..Len(recipes) |-> getPouchID(recipes[i])],
            !.entries = indexWith(recipes, PouchIDKey)],
         none>>

restoredOk(m, recipes) ==
  <<[m EXCEPT
       !.order = [i \in 1..Len(recipes) |-> getPouchID(recipes[i])],
       !.entries = indexWith(recipes, PouchIDKey)],
    none>>

\* restoredError that raises the dismissable kind of alert.
restoredErrorDismissable(m, error) ==
  update(m, AlertDismissable(localize("Hmm, couldn't read from your browser's database.")))

restoredError(m, error) ==
  update(m, AlertRefreshable(localize("Hmm, couldn't read from your browser's database.")))

restoredRecipes(m, result) ==
  IF result.isOk THEN restoredOk(m, result.value)
  ELSE restoredError(m, result.error)

\* startByID that requests the start without activating the ID.
startByIDNotActivating(m, id) ==
  <<m, <<ReceiveFx(RequestStart(CopyOf(m.entries, id)))>>>>

startByID(m, id) ==
  LET r == update(m, Activate(id))
  IN <<r[1], r[2] \o <<ReceiveFx(RequestStart(CopyOf(m.entries, id)))>>>>

activatePanel(m, id) == <<[m EXCEPT !.activePanel = id], none>>

\* put that only writes, leaving the in-memory index for the write's result.
putWithoutIndexing(m, recipe) == <<m, <<PutFx(recipe)>>>>

\* put that moves a re-put ID to the end of order.
putMovingToEnd(m, recipe) ==
  <<[IndexedAdd(m, recipe._id, recipe) EXCEPT
       !.order = SelectSeq(m.order, LAMBDA id : id # recipe._id) \o <<recipe._id>>],
    <<PutFx(recipe)>>>>

put(m, recipe) == <<IndexedAdd(m, recipe._id, recipe), <<PutFx(recipe)>>>>

\* putted that reports a failed write on the banner.
puttedAlerting(m, result) ==
  IF result.isOk THEN <<m, none>>
  ELSE update(m, AlertDismissable(localize("Couldn't save recipe.")))

putted(m, result) == IF result.isOk THEN <<m, none>> ELSE <<m, none>>

\* configure that batches Sync ahead of RestoreRecipes.
configureSyncFirst(m, origin) ==
  batch([m EXCEPT !.origin = origin], <<Sync, RestoreRecipes>>)

configure(m, origin) ==
  batch([m EXCEPT !.origin = origin], <<RestoreRecipes, Sync>>)

update(m, action) ==
  CASE action.type = "Indexed" -> updateIndexed(m, action.source)
    [] action.type = "Banner" -> updateBanner(m, action.source)
    [] action.type = "Modal" -> updateModal(m, action.source)
    [] action.type = "NoOp" -> <<m, none>>
    [] action.type = "Put" -> put(m, action.value)
    [] action.type = "Putted" -> putted(m, action.result)
    [] action.type = "RestoreRecipes" -> <<m, <<RestoreFx>>>>
    [] action.type = "RestoredRecipes" -> restoredRecipes(m, action.result)
    [] action.type = "StartByID" -> startByID(m, action.id)
    [] action.type = "ActivatePanel" -> activatePanel(m, action.id)
    [] action.type = "Sync" -> sync(m)
    [] action.type = "Synced" ->
         IF action.result.isOk THEN syncedOk(m) ELSE syncedError(m)
    [] action.type = "Recipe" -> updateByID(m, action.id, action.source)
    [] action.type = "Configure" -> configure(m, action.origin)
    [] OTHER -> UnknownUpdate(m, action)

init ==
  [active |-> NULL,
   activePanel |-> NULL,
   isOpen |-> FALSE,
   origin |-> NULL,
   order |-> <<>>,
   entries |-> [k \in {} |-> 0],
   banner |-> BannerInit]

\* ================================================================ Dashboard
\* Lines 1-206: the dashboard's reducer. A result is <<model, effects, calls>>:
\* calls lists, in order, the actions the step handed to the sub-models'
\* update functions through the cursors.
ORIGIN_LATEST == "environmental_data_point/latest"
RECIPE_START == "recipe_start"
RECIPE_END == "recipe_end"
AIR_TEMPERATURE == "air_temperature"
WATER_TEMPERATURE == "water_temperature"

\* The variables a fetched row can carry: the four the dashboard knows and
\* one it does not.
Variables == {RECIPE_START, RECIPE_END, AIR_TEMPERATURE, WATER_TEMPERATURE, "humidity"}
\* A fetched record set: row i carries a data point of some variable whose
\* reading is i, so the readings tell the rows apart.
RowsOf(variables) ==
  [i \in 1..Len(variables) |-> [value |-> [variable |-> variables[i], value |-> i]]]
Records ==
  {[rows |-> RowsOf(variables)] :
     variables \in UNION {[1..n -> Variables] : n \in 0..MaxRows}}

\* JavaScript undefined, where a data point is expected.
Undefined == [undefined |-> TRUE]

\* A predicate built by matcher is the pair it compares with.
matcher(key, value) == [key |-> key, value |-> value]
matches(predicate, object) == object[predicate.key] = predicate.value

isRecipeStart == matcher("variable", RECIPE_START)
isRecipeEnd == matcher("variable", RECIPE_END)
isAirTemperature == matcher("variable", AIR_TEMPERATURE)
isWaterTemperature == matcher("variable", WATER_TEMPERATURE)

tagged(type, source) == [type |-> type, source |-> source]

Ping == [type |-> "Ping"]
Pong == [type |-> "Pong"]
Miss == [type |-> "Miss"]
RequestGet(url) == [type |-> "Get", url |-> url]
Got(result) == [type |-> "Got", result |-> result]
AddMany(value) == [type |-> "AddMany", value |-> value]
Start(value) == [type |-> "Start", value |-> value]
End(value) == [type |-> "End", value |-> value]

GetLatest == RequestGet(ORIGIN_LATEST)

\* PollAction that tags every poll action, Ping included.
PollActionAlwaysTagging(action) == tagged("Poll", action)

PollAction(action) ==
  IF action.type = "Ping" THEN GetLatest ELSE tagged("Poll", action)

PongPoll == PollAction(Pong)
MissPoll == PollAction(Miss)

AirTemperatureAction(source) == tagged("AirTemperature", source)
WaterTemperatureAction(source) == tagged("WaterTemperature", source)
AddManyAirTemperatures(value) == AirTemperatureAction(AddMany(value))
AddManyWaterTemperatures(value) == WaterTemperatureAction(AddMany(value))
CurrentRecipeAction(source) == tagged("CurrentRecipe", source)
CurrentRecipeStart(value) == CurrentRecipeAction(Start(value))
CurrentRecipeEnd(value) == CurrentRecipeAction(End(value))
Restore(value) == [type |-> "Restore", value |-> value]

\* Effects of the dashboard: a timer that yields an action, an HTTP fetch.
SleepFx(action) == [kind |-> "sleep", action |-> action]
FetchFx(url) == [kind |-> "fetch", url |-> url]

\* The sub-models. Poll remembers the last proof of liveness and, after a
\* Pong or a Miss, schedules the next Ping; a series holds the readings of the
\* latest AddMany; the tracker holds the marker of the running recipe.
PollInit == <<[heard |-> "none"], none>>
PollUpdate(poll, action) ==
  IF action.type \in {"Pong", "Miss"}
  THEN <<[poll EXCEPT !.heard = action.type], <<SleepFx(Ping)>>>>
  ELSE <<poll, none>>

EnvironmentalDataPointInit(variable) == <<[variable |-> variable, values |-> <<>>], none>>
EnvironmentalDataPointUpdate(series, action) ==
  IF action.type = "AddMany"
  THEN <<[series EXCEPT !.values = action.value], none>>
  ELSE <<series, none>>

CurrentRecipeInit == <<[recipe |-> Undefined], none>>
CurrentRecipeUpdate(current, action) ==
  CASE action.type = "Start" -> <<[current EXCEPT !.recipe = action.value], none>>
    [] action.type = "End" -> <<[current EXCEPT !.recipe = Undefined], none>>
    [] OTHER -> <<current, none>>

\* Request.get: the model unchanged and a fetch whose result arrives as Got.
requestGet(m, url) == <<m, <<FetchFx(url)>>, <<>>>>

dashUnknownUpdate(m, action) == <<m, none, <<>>>>

\* fx.map(tag): the action an effect yields passes through the tag.
mapPollAction(effects) ==
  [i \in 1..Len(effects) |-> [effects[i] EXCEPT !.action = PollAction(@)]]
mapTagged(effects, type) ==
  [i \in 1..Len(effects) |-> [effects[i] EXCEPT !.action = tagged(type, @)]]

Call(to, action) == [to |-> to, action |-> action]

dashInit ==
  <<[currentRecipe |-> CurrentRecipeInit[1],
     poll |-> PollInit[1],
     airTemperature |-> EnvironmentalDataPointInit(AIR_TEMPERATURE)[1],
     waterTemperature |-> EnvironmentalDataPointInit(WATER_TEMPERATURE)[1]],
    mapTagged(CurrentRecipeInit[2], "CurrentRecipe")
      \o mapPollAction(PollInit[2])
      \o mapTagged(EnvironmentalDataPointInit(AIR_TEMPERATURE)[2], "AirTemperature")
      \o mapTagged(EnvironmentalDataPointInit(WATER_TEMPERATURE)[2], "WaterTemperature")
      \o <<ReceiveFx(GetLatest)>>>>

updatePoll(m, action) ==
  LET r == PollUpdate(m.poll, action)
  IN <<[m EXCEPT !.poll = r[1]], mapPollAction(r[2]), <<Call("Poll", action)>>>>

updateAirTemperature(m, action) ==
  LET r == EnvironmentalDataPointUpdate(m.airTemperature, action)
  IN <<[m EXCEPT !.airTemperature = r[1]], mapTagged(r[2], "AirTemperature"),
       <<Call("AirTemperature", action)>>>>

updateWaterTemperature(m, action) ==
  LET r == EnvironmentalDataPointUpdate(m.waterTemperature, action)
  IN <<[m EXCEPT !.waterTemperature = r[1]], mapTagged(r[2], "WaterTemperature"),
       <<Call("WaterTemperature", action)>>>>

updateCurrentRecipe(m, action) ==
  LET r == CurrentRecipeUpdate(m.currentRecipe, action)
  IN <<[m EXCEPT !.currentRecipe = r[1]], mapTagged(r[2], "CurrentRecipe"),
       <<Call("CurrentRecipe", action)>>>>

readDataPointFromRow(row) == row.value

\* readDataPoints that keeps the matching points in reverse row order.
readDataPointsReversed(record, predicate) ==
  LET points == SelectSeq([i \in 1..Len(record.rows) |->
                             readDataPointFromRow(record.rows[i])],
                          LAMBDA point : matches(predicate, point))
  IN [i \in 1..Len(points) |-> points[Len(points) + 1 - i]]

readDataPoints(record, predicate) ==
  SelectSeq([i \in 1..Len(record.rows) |-> readDataPointFromRow(record.rows[i])],
            LAMBDA point : matches(predicate, point))

\* Array.prototype.shift: the first element, undefined for an empty array.
readMostRecentDataPoint(record, predicate) ==
  LET points == SelectSeq([i \in 1..Len(record.rows) |->
                             readDataPointFromRow(record.rows[i])],
                          LAMBDA point : matches(predicate, point))
  IN IF points = <<>> THEN Undefined ELSE Head(points)

RECURSIVE dashUpdate(_, _)

RECURSIVE dashBatch(_, _)
dashBatch(m, actions) ==
  IF actions = <<>> THEN <<m, none, <<>>>>
  ELSE LET first == dashUpdate(m, Head(actions))
           rest == dashBatch(first[1], Tail(actions))
       IN <<rest[1], first[2] \o rest[2], first[3] \o rest[3]>>

restore(m, record) ==
  dashBatch(m, <<AddManyAirTemperatures(readDataPoints(record, isAirTemperature)),
                 AddManyWaterTemperatures(readDataPoints(record, isWaterTemperature)),
                 CurrentRecipeStart(readMostRecentDataPoint(record, isRecipeStart))>>)

gotOk(m, record) == dashBatch(m, <<Restore(record), PongPoll>>)

\* gotError that acknowledges the poll.
gotErrorAcknowledging(m, error) == dashUpdate(m, PongPoll)

gotError(m, error) == dashUpdate(m, MissPoll)

dashUpdate(m, action) ==
  CASE action.type = "CurrentRecipe" -> updateCurrentRecipe(m, action.source)
    [] action.type = "AirTemperature" -> updateAirTemperature(m, action.source)
    [] action.type = "WaterTemperature" -> updateWaterTemperature(m, action.source)
    [] action.type = "Poll" -> updatePoll(m, action.source)
    [] action.type = "Get" -> requestGet(m, action.url)
    [] action.type = "Got" ->
         IF action.result.isOk
         THEN gotOk(m, action.result.value)
         ELSE gotError(m, action.result.error)
    [] action.type = "Restore" -> restore(m, action.value)
    [] OTHER -> dashUnknownUpdate(m, action)

\* ------------------------------------------------------- the reducer alone
\* One step of the program: `update` applied to the model and one action.
\* model is the new model, fx the effect batch the step returned, last the
\* action processed.
Step(action) ==
  LET r == update(model, action)
  IN /\ model' = r[1]
     /\ fx' = r[2]
     /\ last' = action
     /\ UNCHANGED dashVars

Init ==
  /\ model = init
  /\ fx = none
  /\ last = [type |-> "init"]
  /\ inflight = <<>>
  /\ store = EmptyObject
  /\ dashboard = dashInit[1]
  /\ dashFx = dashInit[2]
  /\ dashCalls = <<>>
  /\ dashLast = [type |-> "init"]
  /\ dashInflight = dashInit[2]

DoConfigure == \E o \in Origins \cup {NULL} : Step(Configure(o)) /\ UNCHANGED <<inflight, store>>
DoPut == \E r \in Recipes : Step(Put(r)) /\ UNCHANGED <<inflight, store>>
DoPutted ==
  \E res \in {Ok(<<>>), Error("conflict")} :
    Step(Putted(res)) /\ UNCHANGED <<inflight, store>>
DoRestoreRecipes == Step(RestoreRecipes) /\ UNCHANGED <<inflight, store>>
DoRestoredRecipes ==
  \E res \in {Ok(allDocs(db)) : db \in Stores} \cup {Error("read")} :
    Step(RestoredRecipes(res)) /\ UNCHANGED <<inflight, store>>
DoSync == Step(Sync) /\ UNCHANGED <<inflight, store>>
DoSynced ==
  \E res \in {Ok(<<>>), Error("offline")} :
    Step(Synced(res)) /\ UNCHANGED <<inflight, store>>
DoStartByID == \E id \in IDs : Step(StartByID(id)) /\ UNCHANGED <<inflight, store>>
DoActivatePanel ==
  \E id \in {NULL, "form"} : Step(ActivatePanel(id)) /\ UNCHANGED <<inflight, store>>
DoModal == \E a \in {Open, Close} : Step(a) /\ UNCHANGED <<inflight, store>>
DoRecipe ==
  \E id \in IDs : Step(RecipeAction(id, [type |-> "Other"])) /\ UNCHANGED <<inflight, store>>

Next ==
  \/ DoConfigure
  \/ DoPut
  \/ DoPutted
  \/ DoRestoreRecipes
  \/ DoRestoredRecipes
  \/ DoSync
  \/ DoSynced
  \/ DoStartByID
  \/ DoActivatePanel
  \/ DoModal
  \/ DoRecipe

Spec == Init /\ [][Next]_vars

\* ------------------------------------------------ the effect runner
\* An effect in flight: a database request the runner has not yet answered
\* (done = FALSE), or one whose result waits to be dispatched (done = TRUE).
Pending(effect) == [effect |-> effect, done |-> FALSE]
Resolved(effect, result) == [effect |-> effect, done |-> TRUE, result |-> result]

Issue(effects) == [i \in 1..Len(effects) |-> Pending(effects[i])]

Remove(s, i) == SubSeq(s, 1, i - 1) \o SubSeq(s, i + 1, Len(s))

\* A dispatch by the parent or the view: the reducer step, and the effects it
\* returned go in flight.
Dispatch(action) ==
  /\ Len(inflight) + Len(update(model, action)[2]) <= MaxInFlight
  /\ Step(action)
  /\ inflight' = inflight \o Issue(update(model, action)[2])

\* A result of the effect in flight at position i is dispatched: the reducer
\* step, the effect leaves, and what the step issued goes in flight.
Deliver(i, action) ==
  /\ Step(action)
  /\ inflight' = Remove(inflight, i) \o Issue(update(model, action)[2])

SysConfigure == \E o \in Origins : Dispatch(Configure(o)) /\ UNCHANGED store
SysPut == \E r \in Recipes : Dispatch(Put(r)) /\ UNCHANGED store
SysSync == Dispatch(Sync) /\ UNCHANGED store
SysStartByID == \E id \in IDs : Dispatch(StartByID(id)) /\ UNCHANGED store

\* Database.restore reads the store (or fails); its result waits for dispatch.
RestoreReads ==
  \E i \in 1..Len(inflight) :
    /\ inflight[i].effect.kind = "restore"
    /\ ~inflight[i].done
    /\ \E res \in {Ok(allDocs(store)), Error("read")} :
         inflight' = [inflight EXCEPT ![i] = Resolved(inflight[i].effect, res)]
    /\ UNCHANGED <<model, fx, last, store>>
    /\ UNCHANGED dashVars

RestoreDelivers ==
  \E i \in 1..Len(inflight) :
    /\ inflight[i].effect.kind = "restore"
    /\ inflight[i].done
    /\ Deliver(i, Tagged(inflight[i].effect, inflight[i].result))
    /\ UNCHANGED store

\* Database.put writes the document, or fails (a conflict) and writes nothing.
PutCompletes ==
  \E i \in 1..Len(inflight) :
    /\ inflight[i].effect.kind = "put"
    /\ \/ /\ store' = dbPut(store, inflight[i].effect.doc)
          /\ Deliver(i, Tagged(inflight[i].effect, Ok(<<>>)))
       \/ /\ store' = store
          /\ Deliver(i, Tagged(inflight[i].effect, Error("conflict")))

\* Database.sync replicates with the remote: the local store is unchanged or
\* receives one remote document; or replication fails.
SyncCompletes ==
  \E i \in 1..Len(inflight) :
    /\ inflight[i].effect.kind = "sync"
    /\ \/ /\ store' \in {store} \cup {dbPut(store, r) : r \in Recipes}
          /\ Deliver(i, Tagged(inflight[i].effect, Ok(<<>>)))
       \/ /\ store' = store
          /\ Deliver(i, Tagged(inflight[i].effect, Error("offline")))

\* Effects.receive hands its action back to update.
ReceiveDelivers ==
  \E i \in 1..Len(inflight) :
    /\ inflight[i].effect.kind = "receive"
    /\ Deliver(i, inflight[i].effect.action)
    /\ UNCHANGED store

\* The sync / restore protocol as the parent drives it: Configure is the only
\* dispatch, every other action is the result of an effect.
NextProtocol ==
  \/ SysConfigure
  \/ RestoreReads
  \/ RestoreDelivers
  \/ SyncCompletes

SpecProtocol == Init /\ [][NextProtocol]_vars

\* A database task, once started, settles: PouchDB resolves or rejects every
\* allDocs and sync promise, and the runner dispatches every result.
SpecProtocolFair ==
  /\ SpecProtocol
  /\ WF_vars(RestoreReads)
  /\ WF_vars(RestoreDelivers)
  /\ WF_vars(SyncCompletes)

\* The protocol with Sync also dispatched on its own, as `update` accepts it.
NextSync ==
  \/ SysConfigure
  \/ SysSync
  \/ RestoreReads
  \/ RestoreDelivers
  \/ SyncCompletes

SpecSync == Init /\ [][NextSync]_vars

\* The protocol together with the form's Put and its write.
NextSys ==
  \/ SysConfigure
  \/ SysPut
  \/ SysSync
  \/ RestoreReads
  \/ RestoreDelivers
  \/ PutCompletes
  \/ SyncCompletes

SpecSys == Init /\ [][NextSys]_vars

SysModal == \E action \in {Open, Close} : Dispatch(action) /\ UNCHANGED store
SysRequestStart == \E r \in Recipes : Dispatch(RequestStart(r)) /\ UNCHANGED store

\* The parent dispatches only the actions the module exports; every other
\* action is the result of an effect.
NextExported ==
  \/ SysConfigure
  \/ SysModal
  \/ SysStartByID
  \/ SysRequestStart
  \/ RestoreReads
  \/ RestoreDelivers
  \/ SyncCompletes
  \/ ReceiveDelivers

SpecExported == Init /\ [][NextExported]_vars

\* ------------------------------------------------------ dashboard runner
\* One step of the dashboard: dashUpdate applied to the model and one action.
DashStep(action) ==
  LET r == dashUpdate(dashboard, action)
  IN /\ dashboard' = r[1]
     /\ dashFx' = r[2]
     /\ dashCalls' = r[3]
     /\ dashLast' = action

\* The effect in flight at position i yields its action: the reducer step,
\* the effect leaves, and what the step issued goes in flight.
DashDeliver(i, action) ==
  /\ DashStep(action)
  /\ dashInflight' = Remove(dashInflight, i) \o dashUpdate(dashboard, action)[2]

DashReceiveDelivers ==
  \E i \in 1..Len(dashInflight) :
    /\ dashInflight[i].kind = "receive"
    /\ DashDeliver(i, dashInflight[i].action)
    /\ UNCHANGED recipesVars

\* The timer the poll scheduled fires and yields its (tagged) action.
PollTimerFires ==
  \E i \in 1..Len(dashInflight) :
    /\ dashInflight[i].kind = "sleep"
    /\ DashDeliver(i, dashInflight[i].action)
    /\ UNCHANGED recipesVars

\* The fetch answers with a record set, or fails.
FetchCompletes ==
  \E i \in 1..Len(dashInflight) :
    /\ dashInflight[i].kind = "fetch"
    /\ \E result \in {Ok(record) : record \in Records} \cup {Error("offline")} :
         DashDeliver(i, Got(result))
    /\ UNCHANGED recipesVars

NextDash ==
  \/ DashReceiveDelivers
  \/ PollTimerFires
  \/ FetchCompletes

SpecDash == Init /\ [][NextDash]_vars

\* ================================================================ claims
IsDatabaseFx(effect) == effect.kind \in {"restore", "put", "sync"}

NoDatabaseFx(effects) == \A i \in 1..Len(effects) : ~IsDatabaseFx(effects[i])

IDsOf(recipes) == {recipes[i]._id : i \in 1..Len(recipes)}

NoDuplicates(s) == \A i, j \in 1..Len(s) : s[i] = s[j] => i = j

\* C1: processing Configure(origin) with a non-empty origin returns the model
\* with origin set to it and every other field unchanged, and issues exactly a
\* restore request followed by a sync request.
C1_ConfigureSetsOriginRestoreThenSync ==
  [][(last'.type = "Configure" /\ Truthy(last'.origin)) =>
       /\ model' = [model EXCEPT !.origin = last'.origin]
       /\ Len(fx') = 2
       /\ fx'[1].kind = "restore"
       /\ fx'[2].kind = "sync"
       /\ fx'[2].origin = templateRecipesDatabase(last'.origin)]_vars

C1_Witness ==
  /\ last.type = "Configure"
  /\ Truthy(last.origin)
  /\ model.origin = last.origin
  /\ fx = <<RestoreFx, SyncFx(templateRecipesDatabase(last.origin))>>
  /\ model.order # <<>>
  /\ model.active # NULL

\* C2: processing RestoredRecipes(Ok(recipes)) replaces the collection: order
\* is the _id sequence of recipes, entries maps exactly those IDs to their
\* records, no ID absent from recipes survives, and no effect is issued.
C2_RestoredOkReplacesCollection ==
  [][(last'.type = "RestoredRecipes" /\ last'.result.isOk) =>
       LET recipes == last'.result.value
       IN /\ model'.order = [i \in 1..Len(recipes) |-> recipes[i]._id]
          /\ DOMAIN model'.entries = IDsOf(recipes)
          /\ \A i \in 1..Len(recipes) : model'.entries[recipes[i]._id] = recipes[i]
          /\ \A id \in (DOMAIN model.entries \cup Range(model.order)) \ IDsOf(recipes) :
               id \notin DOMAIN model'.entries /\ id \notin Range(model'.order)
          /\ fx' = none]_vars

\* A restore of a single document into a model whose active ID is another one.
C2_Witness ==
  /\ last.type = "RestoredRecipes"
  /\ last.result.isOk
  /\ Len(last.result.value) = 1
  /\ model.order = <<last.result.value[1]._id>>
  /\ model.active \in IDs \ IDsOf(last.result.value)

\* C3: processing RestoredRecipes(Error(e)) changes nothing but the banner,
\* which shows a refreshable alert, and issues no restore, put or sync request.
C3_RestoredErrorAlertsRefreshable ==
  [][(last'.type = "RestoredRecipes" /\ ~last'.result.isOk) =>
       /\ model'.order = model.order
       /\ model'.entries = model.entries
       /\ model'.origin = model.origin
       /\ model'.active = model.active
       /\ model'.banner.mode = "refreshable"
       /\ NoDatabaseFx(fx')]_vars

C3_Witness ==
  /\ last.type = "RestoredRecipes"
  /\ ~last.result.isOk
  /\ model.banner.mode = "refreshable"
  /\ model.order # <<>>
  /\ Truthy(model.origin)

\* C4: in every reachable state the IDs in order are exactly the keys of
\* entries, and order holds no ID twice.
C4_OrderMatchesEntries ==
  /\ Range(model.order) = DOMAIN model.entries
  /\ NoDuplicates(model.order)

\* A collection of two recipes that a re-Put has just updated in place.
C4_Witness ==
  /\ Len(model.order) = 2
  /\ last.type = "Put"
  /\ last.value._id = model.order[1]

\* C5: processing Put(recipe) returns, in that same step, a model whose
\* entries[recipe._id] is recipe, and issues exactly one write request for the
\* recipe, its result mapped to Putted.
C5_PutIndexesThenWrites ==
  [][last'.type = "Put" =>
       /\ last'.value._id \in DOMAIN model'.entries
       /\ model'.entries[last'.value._id] = last'.value
       /\ fx' = <<[kind |-> "put", doc |-> last'.value, tag |-> "Putted"]>>]_vars

\* A Put of the second body of "a" while another recipe is in the collection.
C5_Witness ==
  /\ last.type = "Put"
  /\ model.entries[last.value._id] = last.value
  /\ fx = <<PutFx(last.value)>>
  /\ last.value.value = 2
  /\ Len(model.order) = 2

\* C6: each Put keeps order free of duplicates and in first-insertion order (a
\* new ID goes to the end, a re-Put ID keeps its position, no other ID moves)
\* and leaves entries[id] the recipe put last (every other entry as it was).
C6_PutKeepsFirstInsertionOrder ==
  [][last'.type = "Put" =>
       LET id == last'.value._id
       IN /\ model'.order =
               IF id \in Range(model.order) THEN model.order
               ELSE model.order \o <<id>>
          /\ NoDuplicates(model'.order)
          /\ DOMAIN model'.entries = DOMAIN model.entries \cup {id}
          /\ model'.entries[id] = last'.value
          /\ \A k \in DOMAIN model.entries \ {id} : model'.entries[k] = model.entries[k]]_vars

\* "a" sits ahead of "b" in order and has just been put with its second body.
C6_Witness ==
  /\ last.type = "Put"
  /\ model.order = <<"a", "b">>
  /\ last.value = [_id |-> "a", value |-> 2]
  /\ model.entries["a"] = last.value

\* C7: processing Putted(result), Ok or Error, leaves the whole model
\* unchanged and issues no effect.
C7_PuttedChangesNothing ==
  [][last'.type = "Putted" => model' = model /\ fx' = none]_vars

\* A failed write: the entry is still there and the banner shows nothing.
C7_Witness ==
  /\ last.type = "Putted"
  /\ ~last.result.isOk
  /\ model.order # <<>>
  /\ model.banner.mode = "hidden"

SyncsInFlight(s) == Cardinality({i \in 1..Len(s) : s[i].effect.kind = "sync"})

RestoresInFlight(s) == Cardinality({i \in 1..Len(s) : s[i].effect.kind = "restore"})

\* C8: processing Sync while origin is unset (null or empty) returns the model
\* unchanged and issues no effect; a sync request comes into flight only in a
\* Sync or Configure step that leaves origin set, so every sync request in
\* flight names a set origin and none is in flight while origin was never set.
C8_SyncNeedsOrigin ==
  /\ [](\A i \in 1..Len(inflight) :
          inflight[i].effect.kind = "sync" =>
            Truthy(inflight[i].effect.origin.origin_url))
  /\ [][/\ (last'.type = "Sync" /\ ~Truthy(model.origin)) =>
             (model' = model /\ fx' = none)
        /\ (\E i \in 1..Len(fx') : fx'[i].kind = "sync") => Truthy(model'.origin)
        /\ SyncsInFlight(inflight') > SyncsInFlight(inflight) =>
             (Truthy(model'.origin) /\ last'.type \in {"Sync", "Configure"})]_vars

\* Sync processed with origin unset (never configured, or configured empty)
\* on a model that already holds a recipe: nothing issued, nothing in flight.
C8_Witness ==
  /\ last.type = "Sync"
  /\ ~Truthy(model.origin)
  /\ fx = none
  /\ model.order # <<>>
  /\ SyncsInFlight(inflight) = 0

\* C9: processing Synced(Ok) leaves the model unchanged and issues exactly one
\* restore request, which goes in flight, and a RestoredRecipes result is
\* applied afterwards.
C9_SyncedOkRestores ==
  /\ [][(last'.type = "Synced" /\ last'.result.isOk) =>
          (model' = model /\ fx' = <<RestoreFx>>)]_vars
  /\ []((last.type = "Synced" /\ last.result.isOk) => RestoresInFlight(inflight) >= 1)
  /\ ((last.type = "Synced" /\ last.result.isOk) ~> last.type = "RestoredRecipes")

\* A successful sync has just been processed; its restore is the only effect
\* in flight and has not yet read the store.
C9_Witness ==
  /\ last.type = "Synced"
  /\ last.result.isOk
  /\ fx = <<RestoreFx>>
  /\ inflight = <<Pending(RestoreFx)>>
  /\ model.order # <<>>

\* C10: processing Synced(Error) shows a dismissable alert on the banner,
\* changes nothing else, issues no restore or sync request, and leaves Put,
\* StartByID and Configure behaving as they would have without the failure.
C10_SyncedErrorIsNotFatal ==
  [][(last'.type = "Synced" /\ ~last'.result.isOk) =>
       /\ model'.banner.mode = "dismissable"
       /\ model' = [model EXCEPT !.banner = model'.banner]
       /\ NoDatabaseFx(fx')
       /\ \A a \in {Put(r) : r \in Recipes} \cup {StartByID(id) : id \in IDs}
                     \cup {Configure(o) : o \in Origins} :
            /\ update(model', a)[1] = [update(model, a)[1] EXCEPT !.banner = model'.banner]
            /\ update(model', a)[2] = update(model, a)[2]]_vars

C10_Witness ==
  /\ last.type = "Synced"
  /\ ~last.result.isOk
  /\ model.banner.mode = "dismissable"
  /\ model.order # <<>>
  /\ Truthy(model.origin)

RequestStartsIn(effects) ==
  {i \in 1..Len(effects) :
     effects[i].kind = "receive" /\ effects[i].action.type = "RequestStart"}

\* C11: processing StartByID(id) when entries[id] exists makes id the active
\* ID whatever was active before, changes nothing else (order and entries
\* included), and queues exactly one RequestStart, whose value is entries[id]
\* as it was when the action was processed.
C11_StartByIDActivatesAndRequestsStart ==
  [][(last'.type = "StartByID" /\ last'.id \in DOMAIN model.entries) =>
       /\ model' = [model EXCEPT !.active = last'.id]
       /\ Cardinality(RequestStartsIn(fx')) = 1
       /\ \A i \in RequestStartsIn(fx') :
            fx'[i].action = RequestStart(model.entries[last'.id])]_vars

\* "b" has just been started in a collection that also holds "a".
C11_Witness ==
  /\ last.type = "StartByID"
  /\ last.id = "b"
  /\ model.active = "b"
  /\ model.order = <<"a", "b">>
  /\ fx = <<ReceiveFx(RequestStart(model.entries["b"]))>>

\* C19: in every reachable state active is null or the ID of a recipe in
\* entries.
C19_ActiveIsNullOrInEntries ==
  model.active = NULL \/ model.active \in DOMAIN model.entries

\* C20: processing StartByID(id) for an id that is not a key of entries
\* queues no RequestStart.
C20_NoRequestStartForMissingID ==
  [][(last'.type = "StartByID" /\ last'.id \notin DOMAIN model.entries) =>
       RequestStartsIn(fx') = {}]_vars

ResolvedRestores ==
  {i \in 1..Len(inflight) : inflight[i].effect.kind = "restore" /\ inflight[i].done}

\* The runner dispatches the restore result waiting at position i.
RestoreDeliversAt(i) ==
  /\ i \in ResolvedRestores
  /\ Deliver(i, Tagged(inflight[i].effect, inflight[i].result))
  /\ UNCHANGED store

\* C15: restore results waiting in flight (Configure's restore and the one
\* issued after Synced(Ok)) can be applied in either order: each waiting
\* result can be dispatched whatever its position, and the step that applies
\* one is a single RestoredRecipes step after which, for an Ok result, order
\* and entries are exactly those of that result, so the result applied last
\* decides the collection whichever request was issued first.
C15_RestoreResultsApplyInCompletionOrder ==
  /\ [](\A i \in 1..MaxInFlight + 1 :
          i \in ResolvedRestores => ENABLED RestoreDeliversAt(i))
  /\ [][RestoresInFlight(inflight') < RestoresInFlight(inflight) =>
          \E i \in ResolvedRestores :
            /\ last' = RestoredRecipes(inflight[i].result)
            /\ SubSeq(inflight', 1, Len(inflight) - 1) = Remove(inflight, i)
            /\ inflight[i].result.isOk =>
                 /\ model'.order = [k \in 1..Len(inflight[i].result.value) |->
                                      inflight[i].result.value[k]._id]
                 /\ model'.entries = indexWith(inflight[i].result.value, PouchIDKey)]_vars

\* The restore issued first read the empty store, a sync then pulled a recipe
\* and the restore issued after it was applied first: the older result,
\* applied last, has emptied the collection.
C15_Witness ==
  /\ last.type = "RestoredRecipes"
  /\ last.result = Ok(<<>>)
  /\ model.order = <<>>
  /\ store # EmptyObject
  /\ inflight = <<>>

\* C16: in a run where the parent dispatches only the exported actions and
\* every other action is the result of an effect, Sync is never processed
\* while origin is unset: neither on its own nor as the second action of
\* Configure's batch.
C16_SyncNeverProcessedWithoutOrigin ==
  last.type \in {"Sync", "Configure"} => Truthy(model.origin)

\* C18: whenever no effect is in flight (no restore, put or sync result is
\* pending), order and entries hold exactly the documents of the local store.
C18_SettledModelMirrorsStore ==
  inflight = <<>> =>
    /\ model.entries = store
    /\ Range(model.order) = DOMAIN store

CallsTo(calls, to) == SelectSeq(calls, LAMBDA call : call.to = to)

\* The values of the rows of the record set that carry the given variable,
\* in row order.
PointsOf(record, variable) ==
  LET kept == SelectSeq(record.rows, LAMBDA row : row.value.variable = variable)
  IN [i \in 1..Len(kept) |-> kept[i].value]

\* C12: processing Got(Error) hands exactly one action to the poll sub-model,
\* Miss (no Pong), hands nothing to the other sub-models, and leaves
\* airTemperature, waterTemperature and currentRecipe unchanged.
C12_GotErrorRecordsMiss ==
  [][(dashLast'.type = "Got" /\ ~dashLast'.result.isOk /\ dashInflight' # dashInflight) =>
       /\ dashCalls' = <<Call("Poll", Miss)>>
       /\ dashboard'.airTemperature = dashboard.airTemperature
       /\ dashboard'.waterTemperature = dashboard.waterTemperature
       /\ dashboard'.currentRecipe = dashboard.currentRecipe]_vars

\* A fetch has failed after an earlier one had filled both series and the
\* tracker.
C12_Witness ==
  /\ dashLast.type = "Got"
  /\ ~dashLast.result.isOk
  /\ dashCalls = <<Call("Poll", Miss)>>
  /\ dashboard.poll.heard = "Miss"
  /\ dashboard.airTemperature.values # <<>>
  /\ dashboard.waterTemperature.values # <<>>
  /\ dashboard.currentRecipe.recipe # Undefined

\* C13: processing Got(Ok(record)) restores and then acknowledges: the air
\* series receives one AddMany carrying exactly the values of the rows whose
\* variable is air_temperature, the water series one AddMany carrying exactly
\* those whose variable is water_temperature, both in row order (rows of any
\* other variable reach neither series), and after them the poll sub-model
\* receives exactly one action, Pong (no Miss), as the last call of the step.
C13_GotOkRestoresThenAcknowledges ==
  [][(dashLast'.type = "Got" /\ dashLast'.result.isOk /\ dashInflight' # dashInflight) =>
       /\ CallsTo(dashCalls', "AirTemperature") =
            <<Call("AirTemperature",
                   AddMany(PointsOf(dashLast'.result.value, AIR_TEMPERATURE)))>>
       /\ CallsTo(dashCalls', "WaterTemperature") =
            <<Call("WaterTemperature",
                   AddMany(PointsOf(dashLast'.result.value, WATER_TEMPERATURE)))>>
       /\ CallsTo(dashCalls', "Poll") = <<Call("Poll", Pong)>>
       /\ dashCalls'[Len(dashCalls')] = Call("Poll", Pong)
       /\ dashboard'.poll.heard = "Pong"]_vars

\* A record set of an air reading, a water reading and a second air reading
\* has been restored and acknowledged.
C13_Witness ==
  /\ dashLast.type = "Got"
  /\ dashLast.result.isOk
  /\ Len(dashLast.result.value.rows) = 3
  /\ Len(dashboard.airTemperature.values) = 2
  /\ dashboard.airTemperature.values[1].value = 1
  /\ dashboard.airTemperature.values[2].value = 3
  /\ Len(dashboard.waterTemperature.values) = 1
  /\ dashboard.poll.heard = "Pong"
  /\ dashCalls[Len(dashCalls)] = Call("Poll", Pong)

IsMarker(point) == point.variable \in {RECIPE_START, RECIPE_END}

\* C14: processing Got(Ok(record)) for a record set that holds a recipe_start
\* or recipe_end row hands the current-recipe tracker the value of the first
\* such row.
C14_TrackerFollowsFirstMarker ==
  [][(/\ dashLast'.type = "Got"
      /\ dashLast'.result.isOk
      /\ dashInflight' # dashInflight
      /\ \E i \in 1..Len(dashLast'.result.value.rows) :
           IsMarker(dashLast'.result.value.rows[i].value)) =>
       LET rows == dashLast'.result.value.rows
           first == CHOOSE i \in 1..Len(rows) :
                      /\ IsMarker(rows[i].value)
                      /\ \A j \in 1..(i - 1) : ~IsMarker(rows[j].value)
       IN \A k \in 1..Len(dashCalls') :
            dashCalls'[k].to = "CurrentRecipe" =>
              dashCalls'[k].action.value = rows[first].value]_vars

\* C17: a Ping of the poll sub-model is translated into the Get request for
\* the latest-data-points origin and never handed back to the poll: every
\* timer the poll scheduled yields that Get, processing it issues the fetch
\* and calls no sub-model, and the poll sub-model only ever receives Pong or
\* Miss, which travel as Poll-tagged actions; init queues one such Get.
C17_PingBecomesGetLatest ==
  /\ PongPoll = tagged("Poll", Pong)
  /\ MissPoll = tagged("Poll", Miss)
  /\ [](/\ dashLast.type = "init" => dashFx = <<ReceiveFx(GetLatest)>>
        /\ \A i \in 1..Len(dashInflight) :
             dashInflight[i].kind = "sleep" =>
               dashInflight[i].action = RequestGet(ORIGIN_LATEST)
        /\ \A k \in 1..Len(dashCalls) :
             dashCalls[k].to = "Poll" => dashCalls[k].action \in {Pong, Miss})
  /\ [][(dashLast'.type = "Get" /\ dashInflight' # dashInflight) =>
          /\ dashFx' = <<FetchFx(ORIGIN_LATEST)>>
          /\ dashCalls' = <<>>
          /\ dashboard' = dashboard]_vars

\* The timer scheduled after a Pong has fired: its Ping arrived as the Get
\* request and the fetch is in flight.
C17_Witness ==
  /\ dashLast = RequestGet(ORIGIN_LATEST)
  /\ dashboard.poll.heard = "Pong"
  /\ dashInflight = <<FetchFx(ORIGIN_LATEST)>>
  /\ dashCalls = <<>>
====
